---------------------------- MODULE Spec2Model ----------------------------
(***************************************************************************)
(* A model of calibrate.py (OpenCV chessboard calibration demo):           *)
(*   - the keyframe tracking loop of realtime_pose_estimation, with numpy  *)
(*     arrays modelled as heap objects so that aliasing between 'rvec',    *)
(*     'tvec' and the stored keyframe pose is visible;                     *)
(*   - the interactive menu of main, with calibrate_camera and             *)
(*     reprojection_error.                                                 *)
(*                                                                         *)
(* Rotations are drawn from the tetrahedral rotation group (identity,      *)
(* 120 degree turns about the cube diagonals, 180 degree turns about the   *)
(* coordinate axes): it is not commutative, and its unit quaternions (the  *)
(* Hurwitz units) and rotation matrices are exact over the integers.       *)
(* A rotation vector is encoded as an integer vector v whose direction is  *)
(* the rotation axis and whose squared length encodes the angle:           *)
(*    v.v = 0  : no rotation                                               *)
(*    v.v = 3  : 120 degrees about v = (+-1,+-1,+-1)                       *)
(*    v.v = 9  : 180 degrees about v = +-3*e_i                             *)
(* A quaternion is stored as twice its value, <<2w, 2x, 2y, 2z>>.          *)
(***************************************************************************)
EXTENDS Integers, Sequences, FiniteSets, TLC

(* ------------------------------ bounds -------------------------------- *)

\* keyframes written in one tracking run
MaxKeyframes == 2
\* how many entries of PoseList the pose solver may return
NPoses == 3
\* array objects that can be alive at once
MaxObjs == 7
\* menu: largest board dimension that can be typed in, images matched by glob
MaxBoard == 2
MaxImages == 3

(* ------------------------- vectors and matrices ----------------------- *)

Zero3 == <<0, 0, 0>>

Neg(v) == <<0 - v[1], 0 - v[2], 0 - v[3]>>

Sub(u, v) == <<u[1] - v[1], u[2] - v[2], u[3] - v[3]>>

Add(u, v) == <<u[1] + v[1], u[2] + v[2], u[3] + v[3]>>

Dot(u, v) == u[1] * v[1] + u[2] * v[2] + u[3] * v[3]

MatVec(M, v) == <<Dot(M[1], v), Dot(M[2], v), Dot(M[3], v)>>

Col(M, j) == <<M[1][j], M[2][j], M[3][j]>>

MatMul(A, B) == [i \in 1..3 |-> [j \in 1..3 |-> Dot(A[i], Col(B, j))]]

Identity3 == <<<<1, 0, 0>>, <<0, 1, 0>>, <<0, 0, 1>>>>

NoMatrix == <<<<0, 0, 0>>, <<0, 0, 0>>, <<0, 0, 0>>>>

Delta(i, j) == IF i = j THEN 1 ELSE 0

CrossMat(v) == <<<<0, 0 - v[3], v[2]>>, <<v[3], 0, 0 - v[1]>>, <<0 - v[2], v[1], 0>>>>

\* cv2.Rodrigues: rotation vector -> rotation matrix,
\*   R = cos(a) I + sin(a) [u]x + (1 - cos(a)) u u^T.
\* 120 degrees about v/sqrt(3):  R = (-I + [v]x + v v^T) / 2
\* 180 degrees about v/3      :  R = -I + 2 (v/3)(v/3)^T
\* A vector that is no rotation vector of the group has no matrix here.
Rodrigues(v) ==
    LET n2 == Dot(v, v) IN
    CASE n2 = 0 -> Identity3
      [] n2 = 3 -> [i \in 1..3 |-> [j \in 1..3 |->
                     ((0 - Delta(i, j)) + CrossMat(v)[i][j] + v[i] * v[j]) \div 2]]
      [] n2 = 9 -> [i \in 1..3 |-> [j \in 1..3 |->
                     (0 - Delta(i, j)) + 2 * (v[i] \div 3) * (v[j] \div 3)]]
      [] OTHER -> NoMatrix

(* ----------------------------- quaternions ---------------------------- *)

\* q = (cos(a/2), sin(a/2) u), stored doubled
quat_from_rvec(v) ==
    LET n2 == Dot(v, v) IN
    CASE n2 = 0 -> <<2, 0, 0, 0>>
      [] n2 = 3 -> <<1, v[1], v[2], v[3]>>
      [] n2 = 9 -> <<0, 2 * (v[1] \div 3), 2 * (v[2] \div 3), 2 * (v[3] \div 3)>>
      [] OTHER -> <<0, 0, 0, 0>>

\* Hamilton product of two doubled quaternions, doubled
mult_quat(p, q) ==
    << (p[1] * q[1] - p[2] * q[2] - p[3] * q[3] - p[4] * q[4]) \div 2,
       (p[1] * q[2] + p[2] * q[1] + p[3] * q[4] - p[4] * q[3]) \div 2,
       (p[1] * q[3] - p[2] * q[4] + p[3] * q[1] + p[4] * q[2]) \div 2,
       (p[1] * q[4] + p[2] * q[3] - p[3] * q[2] + p[4] * q[1]) \div 2 >>

\* inverse of a unit quaternion: its conjugate
inv_quat(q) == <<q[1], 0 - q[2], 0 - q[3], 0 - q[4]>>

\* back to a rotation vector, the angle folded into (-180, 180] degrees
rvec_from_quat(q) ==
    LET p == IF q[1] < 0 THEN <<0 - q[1], 0 - q[2], 0 - q[3], 0 - q[4]>> ELSE q IN
    CASE p[1] = 2 -> Zero3
      [] p[1] = 1 -> <<p[2], p[3], p[4]>>
      [] p[1] = 0 -> <<3 * (p[2] \div 2), 3 * (p[3] \div 2), 3 * (p[4] \div 2)>>
      [] OTHER -> <<9, 9, 9>>

\* quaternions.delta_rvec(r1, r0): the rotation r with r1 = r o r0,
\* computed by quaternion composition q1 * inverse(q0)
delta_rvec(r1, r0) ==
    rvec_from_quat(mult_quat(quat_from_rvec(r1), inv_quat(quat_from_rvec(r0))))

\* quaternions.axis_and_angle_from_rvec: <<axis direction, angle in degrees>>;
\* the axis is given as its integer direction (the unit axis is axis/|axis|),
\* a zero rotation gets the fixed axis +X
axis_and_angle_from_rvec(v) ==
    LET n2 == Dot(v, v) IN
    CASE n2 = 0 -> <<<<1, 0, 0>>, 0>>
      [] n2 = 3 -> <<v, 120>>
      [] n2 = 9 -> <<<<v[1] \div 3, v[2] \div 3, v[3] \div 3>>, 180>>
      [] OTHER -> <<v, 0 - 1>>

(* --------------------------- inputs of the model ---------------------- *)

\* <<rvec, tvec>> pairs: two rotations that do not commute, one translation
\* under two rotations, one rotation with two translations, the identity
PoseList ==
    << << <<1, 1, 1>>, <<1, 2, 0>> >>,
       << <<3, 0, 0>>, <<1, 2, 0>> >>,
       << <<1, 1, 1>>, <<0, 1, 3>> >>,
       << <<0, 0, 0>>, <<0, 0, 0>> >>,
       << <<1, -1, 1>>, <<2, 0, 1>> >>,
       << <<0, 0, -3>>, <<0, 1, 3>> >>,
       << <<-1, -1, 1>>, <<1, 1, 1>> >>,
       << <<0, 3, 0>>, <<2, 0, 1>> >> >>

Min(a, b) == IF a < b THEN a ELSE b

\* the outputs <<rvec, tvec>> cv2.solvePnP may return
PosesIn == {PoseList[i] : i \in 1..Min(NPoses, Len(PoseList))}

Keys == {"space", "esc", "q", "other"}

\* test points for transform round trips
Points == {<<0, 0, 0>>, <<1, 0, 0>>, <<0, 1, 0>>, <<0, 0, 1>>, <<1, 2, 3>>}


(* ------------------------------- state -------------------------------- *)

VARIABLES
    \* realtime_pose_estimation
    pc,               \* "loop" while the while-loop runs, "done" after q / ESC
    imageNr,          \* keyframe image id
    heap,             \* numpy array objects: id -> value, <<>> when not alive
    rvec, tvec,       \* references into heap, 0 for None
    rvec_prev, tvec_prev,
    ret,              \* result of feature extraction / of cv2.solvePnP
    rvec_rel, tvec_rel,   \* values (fresh arrays, never shared), <<>> unbound
    texts,            \* the list of text lines, <<>> unbound
    shown,            \* the lines mlt.putText drew on this frame's image
    last_key_pressed,
    files,            \* index -> contents of the written keyframe txt-file
    \* history of the tracking run, read by the properties only
    solverOut,        \* <<rvec, tvec>> as returned by cv2.solvePnP this frame
    uses,             \* the pose each consumer was handed this frame
    commits,          \* the poses stored as keyframes, in order
    writes            \* the indices of the keyframe files, in writing order

trackVars ==
    <<pc, imageNr, heap, rvec, tvec, rvec_prev, tvec_prev, ret, rvec_rel,
      tvec_rel, texts, shown, last_key_pressed, files, solverOut, uses,
      commits, writes>>

ObjIds == 1..MaxObjs

NoUses == [proj |-> <<>>, rel |-> <<>>, text |-> <<>>]

\* the smallest id of an array object that is not alive
Fresh(used) == CHOOSE i \in ObjIds \ used : \A j \in ObjIds \ used : i <= j

\* variant: the solver writes its result into the array the variable holds
solvePnP_inplace(cur, used) == IF cur # 0 THEN cur ELSE Fresh(used)

\* cv2.solvePnP called without output arguments returns newly made arrays;
\* 'cur' is the array the assigned variable referred to before
solvePnP_out(cur, used) == Fresh(used)

\* variant: no sign change
Keep(v) == v

\* 'rvec *= -1', 'tvec *= -1': the new value of the array operated on
NegateInPlace(v) == Neg(v)

\* variant: rotates with the solver's rotation instead of its inverse
RotateTvec_raw(r, t) == MatVec(Rodrigues(Neg(r)), t)

\* cv2.Rodrigues(rvec)[0].dot(tvec), rvec already inverted
RotateTvec(r, t) == MatVec(Rodrigues(r), t)

\* variant: the sign flip of the current rotation left out
RvecRel_onesign(r, rp) == Neg(delta_rvec(r, Neg(rp)))

\* variant: no sign flips at all
RvecRel_plain(r, rp) == delta_rvec(r, rp)

\* rvec_rel = -qwts.delta_rvec(-rvec, -rvec_prev)
RvecRel(r, rp) == Neg(delta_rvec(Neg(r), Neg(rp)))

\* tvec_rel = tvec - tvec_prev
TvecRel(t, tp) == Sub(t, tp)

\* variant: the keyframe id is not advanced
NextImageNr_stuck(n) == n

\* imageNr += 1
NextImageNr(n) == n + 1

\* the six text lines built from the current and the relative pose
MakeTexts(r, t, rr, tr) ==
    << "Current pose:", axis_and_angle_from_rvec(r), t,
       "Relative to previous pose:", axis_and_angle_from_rvec(rr), tr >>

TrackInit ==
    /\ pc = "loop"
    /\ imageNr = 0
    /\ heap = [i \in ObjIds |-> IF i \in {1, 2} THEN Zero3 ELSE <<>>]
    /\ rvec_prev = 1
    /\ rvec = 0
    /\ tvec_prev = 2
    /\ tvec = 0
    /\ ret = FALSE
    /\ rvec_rel = <<>>
    /\ tvec_rel = <<>>
    /\ texts = <<>>
    /\ shown = <<>>
    /\ last_key_pressed = "none"
    /\ files = <<>>
    /\ solverOut = <<>>
    /\ uses = NoUses
    /\ commits = <<>>
    /\ writes = <<>>

\* one pass of the loop body in which no chessboard is found
FrameNoPattern(key) ==
    /\ pc = "loop"
    /\ ret' = FALSE
    /\ shown' = <<>>
    /\ last_key_pressed' = key
    /\ pc' = IF key \in {"q", "esc"} THEN "done" ELSE "loop"
    /\ solverOut' = <<>>
    /\ uses' = NoUses
    /\ UNCHANGED <<imageNr, heap, rvec, tvec, rvec_prev, tvec_prev, rvec_rel,
                   tvec_rel, texts, files, commits, writes>>

\* one pass of the loop body in which the chessboard is found; the solver
\* answers (ok, R, t), and on failure R, t are whatever it left in its output
FramePattern(ok, R, t, key) ==
    /\ pc = "loop"
    /\ (key = "space" /\ ok) => imageNr < MaxKeyframes
    /\ \E a \in {solvePnP_out(rvec, {rvec, tvec, rvec_prev, tvec_prev})} :
       \E b \in {solvePnP_out(tvec, {rvec, tvec, rvec_prev, tvec_prev, a})} :
       \E c \in {Fresh({rvec, tvec, rvec_prev, tvec_prev, a, b})} :
       \* line 144: the solver's arrays
       \E h1 \in {[heap EXCEPT ![a] = R, ![b] = t]} :
       \* line 156: rvec *= -1
       \E h2 \in {[h1 EXCEPT ![a] = NegateInPlace(h1[a])]} :
       \* line 157: tvec = cv2.Rodrigues(rvec)[0].dot(tvec), a new array
       \E h3 \in {[h2 EXCEPT ![c] = RotateTvec(h2[a], h2[b])]} :
       \* line 158: tvec *= -1
       \E h4 \in {[h3 EXCEPT ![c] = NegateInPlace(h3[c])]} :
       \* lines 161-162
       \E rr \in {RvecRel(h4[a], h4[rvec_prev])} :
       \E tr \in {TvecRel(h4[c], h4[tvec_prev])} :
       \* lines 176-182
       \E tx \in {MakeTexts(h4[a], h4[c], rr, tr)} :
       \* line 198
       \E save \in {key = "space" /\ ok} :
          /\ ret' = ok
          /\ rvec' = a
          /\ tvec' = c
          /\ rvec_rel' = rr
          /\ tvec_rel' = tr
          /\ texts' = tx
          /\ shown' = tx
          /\ solverOut' = <<R, t>>
          /\ uses' = [proj |-> <<h1[a], h1[b]>>,
                      rel |-> <<h4[a], h4[c]>>,
                      text |-> <<h4[a], h4[c]>>]
          /\ rvec_prev' = IF save THEN a ELSE rvec_prev
          /\ tvec_prev' = IF save THEN c ELSE tvec_prev
          /\ heap' = [i \in ObjIds |->
                        IF i \in {a, c, rvec_prev', tvec_prev'} THEN h4[i] ELSE <<>>]
          /\ IF save
               THEN /\ files' = (imageNr :> tx) @@ files
                    /\ writes' = Append(writes, imageNr)
                    /\ commits' = Append(commits, <<h4[a], h4[c]>>)
                    /\ imageNr' = NextImageNr(imageNr)
               ELSE UNCHANGED <<files, writes, commits, imageNr>>
    /\ last_key_pressed' = key
    /\ pc' = IF key \in {"q", "esc"} THEN "done" ELSE "loop"

(* -------------------------------- main --------------------------------- *)

VARIABLES
    mpc,              \* "menu" in the while-loop, "quit" after it, "aborted"
                      \* when an exception left main
    exc,              \* the exception that left main, "none" otherwise
    inp,              \* the last menu input
    boardSize,
    objp,             \* <<>> while the name is unbound
    filename_base_chessboards,
    filename_distorted,
    filename_base_extrinsics,
    device_id,
    calib,            \* the names bound by option 2's assignment, <<>> unbound
    errors,           \* <<mean_error, square_error>> of option 4, <<>> unbound
    \* history, read by the properties only
    lastCalib,        \* the last call of calibrate_camera
    lastEval          \* per sample, what the last reprojection_error divided

menuVars ==
    <<mpc, exc, inp, boardSize, objp, filename_base_chessboards,
      filename_distorted, filename_base_extrinsics, device_id, calib, errors,
      lastCalib, lastEval>>

\* the session state main keeps between menu inputs
sessionVars ==
    <<boardSize, objp, filename_base_chessboards, filename_distorted,
      filename_base_extrinsics, device_id, calib, errors>>

vars == <<trackVars, menuVars>>

DefaultBoardSize == <<8, 6>>

\* board sizes that can be typed at the prompt of option 1
BoardSizes == {<<a, b>> : a, b \in 2..MaxBoard}

MenuInputs == {"1", "2", "3", "4", "5", "q", "Q", "x"}

Recognised == {"1", "2", "3", "4", "5"}

\* int(device_id_inp), for the device numbers that are typed
int(str) == CASE str = "0" -> 0 [] str = "1" -> 1 [] str = "2" -> 2

\* np.prod(boardSize)
Prod(bs) == bs[1] * bs[2]

\* [i, j, 0] for i in range(boardSize[1]) for j in range(boardSize[0])
prepare_object_points(bs) ==
    [k \in 1..Prod(bs) |-> <<(k - 1) \div bs[1], (k - 1) % bs[1], 0>>]

\* the accepted samples: objp once per image in which the corners were found
Samples(found, op) ==
    LET F[k \in 0..Len(found)] ==
          IF k = 0 THEN <<>>
          ELSE IF found[k] THEN Append(F[k - 1], op) ELSE F[k - 1]
    IN F[Len(found)]

SumSeq(sq) ==
    LET S[k \in 0..Len(sq)] == IF k = 0 THEN 0 ELSE S[k - 1] + sq[k]
    IN S[Len(sq)]

\* reprojection_error: every point of every sample is off by e pixels along
\* each image axis; term i of the running sums is
\*     abs(error).sum(axis=0) / np.prod(boardSize)
\* kept as the fraction <<numerator, denominator>>
reprojection_terms(objectPoints, bs, e) ==
    [i \in 1..Len(objectPoints) |->
        [points |-> Len(objectPoints[i]),
         abs |-> <<e * Len(objectPoints[i]), Prod(bs)>>,
         sq |-> <<e * e * Len(objectPoints[i]), Prod(bs)>>]]

\* mean_error / n_images and square_error.sum() / n_images (before the norm
\* and the square root), as fractions; all terms share one denominator
reprojection_error(objectPoints, bs, e) ==
    LET tm == reprojection_terms(objectPoints, bs, e)
        n == Len(objectPoints)
    IN << <<SumSeq([i \in 1..n |-> tm[i].abs[1]]), Prod(bs) * n>>,
          <<SumSeq([i \in 1..n |-> tm[i].sq[1]]), Prod(bs) * n>> >>

MenuInit ==
    /\ mpc = "menu"
    /\ exc = "none"
    /\ inp = ""
    /\ boardSize = DefaultBoardSize
    /\ objp = <<>>
    /\ filename_base_chessboards = "chessboards/chessboard*.jpg"
    /\ filename_distorted = "chessboards/chessboard07.jpg"
    /\ filename_base_extrinsics = "chessboards_extrinsic/chessboard"
    /\ device_id = 1
    /\ calib = <<>>
    /\ errors = <<>>
    /\ lastCalib = <<>>
    /\ lastEval = <<>>

\* an uncaught exception ends main; the names keep their values
Raise(e) ==
    /\ mpc' = "aborted"
    /\ exc' = e

Continue ==
    /\ mpc' = "menu"
    /\ exc' = "none"

\* "1": prepare_object_points; typed is <<>> (ENTER) or a board size
Option1(typed) ==
    /\ mpc = "menu"
    /\ inp' = "1"
    /\ boardSize' = IF typed = <<>> THEN boardSize ELSE typed
    /\ objp' = prepare_object_points(boardSize')
    /\ Continue
    /\ UNCHANGED <<filename_base_chessboards, filename_distorted,
                   filename_base_extrinsics, device_id, calib, errors,
                   lastCalib, lastEval>>

\* "2": calibrate_camera on the images the pattern matches; found[k] tells
\* whether the corners were found in image k, solved whether
\* cv2.calibrateCamera returned (it raises on an empty list of samples)
Option2(typed, found, solved) ==
    /\ mpc = "menu"
    /\ inp' = "2"
    /\ filename_base_chessboards' =
          IF typed = "" THEN filename_base_chessboards ELSE typed
    /\ IF objp = <<>>
         THEN /\ Raise("NameError")
              /\ UNCHANGED <<calib, lastCalib>>
         ELSE IF Len(found) = 0
         THEN \* images[0]
              /\ Raise("IndexError")
              /\ calib' = calib
              /\ lastCalib' = [samples |-> 0, solveRan |-> FALSE,
                               error |-> "IndexError"]
         ELSE LET objectPoints == Samples(found, objp)
                  ok == solved /\ Len(objectPoints) > 0
              IN  /\ lastCalib' = [samples |-> Len(objectPoints),
                                   solveRan |-> TRUE,
                                   error |-> IF ok THEN "none" ELSE "cv2.error"]
                  /\ IF ok
                       THEN /\ calib' = [objectPoints |-> objectPoints,
                                         imagePoints |->
                                           [i \in 1..Len(objectPoints) |->
                                              Prod(boardSize)]]
                            /\ Continue
                       ELSE /\ calib' = calib
                            /\ Raise("cv2.error")
    /\ UNCHANGED <<boardSize, objp, filename_distorted,
                   filename_base_extrinsics, device_id, errors, lastEval>>

\* "3": undistort_image; readable tells whether cv2.imread gave an image
Option3(typed, readable) ==
    /\ mpc = "menu"
    /\ inp' = "3"
    /\ filename_distorted' = IF typed = "" THEN filename_distorted ELSE typed
    /\ IF calib = <<>> THEN Raise("NameError")
       ELSE IF ~readable THEN Raise("cv2.error")
       ELSE Continue
    /\ UNCHANGED <<boardSize, objp, filename_base_chessboards,
                   filename_base_extrinsics, device_id, calib, errors,
                   lastCalib, lastEval>>

\* "4": reprojection_error, with the board size as it is now
Option4(e) ==
    /\ mpc = "menu"
    /\ inp' = "4"
    /\ IF calib = <<>>
         THEN /\ Raise("NameError")
              /\ UNCHANGED <<errors, lastEval>>
         ELSE /\ errors' = reprojection_error(calib.objectPoints, boardSize, e)
              /\ lastEval' = reprojection_terms(calib.objectPoints, boardSize, e)
              /\ Continue
    /\ UNCHANGED <<boardSize, objp, filename_base_chessboards,
                   filename_distorted, filename_base_extrinsics, device_id,
                   calib, lastCalib>>

\* "5": realtime_pose_estimation (the tracking loop above), which returns
\* once q or ESC is pressed
Option5(typedDevice, typedBase) ==
    /\ mpc = "menu"
    /\ inp' = "5"
    /\ device_id' = IF typedDevice = "" THEN device_id ELSE int(typedDevice)
    /\ filename_base_extrinsics' =
          IF typedBase = "" THEN filename_base_extrinsics ELSE typedBase
    /\ IF calib = <<>> THEN Raise("NameError") ELSE Continue
    /\ UNCHANGED <<boardSize, objp, filename_base_chessboards,
                   filename_distorted, calib, errors, lastCalib, lastEval>>

\* any other input: no branch is taken; "q" and "Q" end the loop
Other(typed) ==
    /\ mpc = "menu"
    /\ typed \notin Recognised
    /\ inp' = typed
    /\ mpc' = IF typed \in {"q", "Q"} THEN "quit" ELSE "menu"
    /\ exc' = "none"
    /\ UNCHANGED <<sessionVars, lastCalib, lastEval>>

FoundSeqs == UNION {[1..n -> BOOLEAN] : n \in 0..MaxImages}

(* --------------------------- specifications --------------------------- *)

\* one step of the tracking loop, which touches no variable of main
TrackNext ==
    \/ /\ \E key \in Keys : FrameNoPattern(key)
       /\ UNCHANGED menuVars
    \/ /\ \E ok \in BOOLEAN, p \in PosesIn, key \in Keys :
             FramePattern(ok, p[1], p[2], key)
       /\ UNCHANGED menuVars

\* one step of the menu loop
MainNext ==
    \/ /\ \E typed \in {<<>>} \cup BoardSizes : Option1(typed)
       /\ UNCHANGED trackVars
    \/ /\ \E typed \in {"", "other/*.jpg"}, found \in FoundSeqs, solved \in BOOLEAN :
             Option2(typed, found, solved)
       /\ UNCHANGED trackVars
    \/ /\ \E typed \in {"", "other.jpg"}, readable \in BOOLEAN :
             Option3(typed, readable)
       /\ UNCHANGED trackVars
    \/ /\ \E e \in 0..1 : Option4(e)
       /\ UNCHANGED trackVars
    \/ /\ \E typedDevice \in {"", "0"}, typedBase \in {"", "other/keyframe"} :
             Option5(typedDevice, typedBase)
       /\ UNCHANGED trackVars
    \/ /\ \E typed \in MenuInputs : Other(typed)
       /\ UNCHANGED trackVars

Init == TrackInit /\ MenuInit

\* one run of realtime_pose_estimation
SpecTrack == Init /\ [][TrackNext]_vars

\* one run of main
SpecMenu == Init /\ [][MainNext]_vars

(* ------------------------------ properties ---------------------------- *)

\* the stored keyframe pose, by value
PrevR == heap[rvec_prev]

PrevT == heap[tvec_prev]

\* the pose computed in the last frame, by value
CurR == heap[rvec]

CurT == heap[tvec]

\* a frame has just computed a pose from a solver output
Posed == solverOut # <<>>

\* the inverse of the rigid transform x |-> R x + t, as <<rvec, tvec>>
InvPose(p) == <<Neg(p[1]), Neg(MatVec(Rodrigues(Neg(p[1])), p[2]))>>

\* C1: the stored keyframe pose starts as zero rotation and zero translation;
\* its value changes only in a frame in which SPACE was pressed and the solver
\* succeeded, and such a frame leaves it equal to that frame's world-frame
\* pose; computing a frame's current and relative pose never changes it.
C1_KeyframePoseChangesOnlyOnCommit ==
    /\ PrevR = Zero3 /\ PrevT = Zero3
    /\ [][ /\ (PrevR' # PrevR \/ PrevT' # PrevT)
                => (last_key_pressed' = "space" /\ ret' = TRUE /\ Posed')
           /\ (last_key_pressed' = "space" /\ ret' = TRUE)
                => (PrevR' = CurR' /\ PrevT' = CurT'
                    /\ <<PrevR', PrevT'>> = InvPose(solverOut'))
         ]_vars

\* C1 witness: after a keyframe was stored, a later frame computed another
\* pose (its arrays negated in place) and the stored pose is still the
\* committed one.
C1_Witness ==
    /\ imageNr >= 1
    /\ Posed /\ ret = TRUE /\ last_key_pressed = "other"
    /\ rvec # rvec_prev
    /\ CurR # PrevR /\ CurT # PrevT
    /\ PrevR # Zero3
    /\ <<PrevR, PrevT>> = commits[Len(commits)]

\* C2: when a frame yields exactly the pose of the last committed keyframe,
\* the relative pose computed and shown for it is the zero rotation and the
\* zero translation.
C2_SamePoseGivesZeroDelta ==
    [][ (Posed' /\ Len(commits) >= 1 /\ <<CurR', CurT'>> = commits[Len(commits)])
          => /\ rvec_rel' = Zero3
             /\ tvec_rel' = Zero3
             /\ shown'[5] = axis_and_angle_from_rvec(Zero3)
             /\ shown'[6] = Zero3
      ]_vars

\* C2 witness: a keyframe with a non-zero rotation and translation was
\* committed and a later frame (new arrays, no commit) yielded the same pose.
C2_Witness ==
    /\ Len(commits) >= 1
    /\ Posed /\ ret = TRUE /\ last_key_pressed = "other"
    /\ rvec # rvec_prev
    /\ <<CurR, CurT>> = commits[Len(commits)]
    /\ CurR # Zero3 /\ CurT # Zero3
    /\ rvec_rel = Zero3 /\ tvec_rel = Zero3

C4_WorldPoseIsInverse ==
    Posed =>
      LET R == Rodrigues(solverOut[1])
          t == solverOut[2]
          Rw == Rodrigues(CurR)
      IN  /\ MatMul(Rw, R) = Identity3
          /\ MatMul(R, Rw) = Identity3
          /\ CurT = Neg(MatVec(Rw, t))
          /\ \A x \in Points : Add(MatVec(Rw, Add(MatVec(R, x), t)), CurT) = x

\* C4 witness: a solver output whose rotation is not its own inverse and
\* whose translation is moved by it.
C4_Witness ==
    /\ Posed
    /\ Rodrigues(solverOut[1]) # Rodrigues(CurR)
    /\ solverOut[2] # Zero3
    /\ CurT # Neg(solverOut[2])
    /\ MatMul(Rodrigues(CurR), Rodrigues(solverOut[1])) = Identity3

\* C5 as stated: in every frame with a solved pose the relative-pose
\* computation, the axis-angle text and the axis-system projection all take
\* the world-frame (inverted) pose.
C5_AllConsumersUseWorldPose ==
    (Posed /\ ret = TRUE) =>
      /\ uses.rel = InvPose(solverOut)
      /\ uses.text = InvPose(solverOut)
      /\ uses.proj = InvPose(solverOut)

\* C5 amended: in every frame with a solved pose the relative-pose
\* computation and the axis-angle text take the world-frame (inverted) pose;
\* the axis-system projection takes the solver output as returned.
C5_PoseConsumersUseWorldPose ==
    (Posed /\ ret = TRUE) =>
      /\ uses.rel = InvPose(solverOut)
      /\ uses.text = InvPose(solverOut)
      /\ uses.proj = solverOut

\* C5 witness: a solved frame whose world-frame pose differs from the solver
\* output in rotation and translation.
C5_Witness ==
    /\ Posed /\ ret = TRUE
    /\ InvPose(solverOut)[1] # solverOut[1]
    /\ InvPose(solverOut)[2] # solverOut[2]
    /\ uses.proj = solverOut
    /\ uses.rel = InvPose(solverOut)

\* C6 as stated: for every sample, reprojection_error divides that sample's
\* summed absolute and squared errors by the sample's own number of points.
C6_DivisorIsSamplePointCount ==
    \A i \in DOMAIN lastEval :
        /\ lastEval[i].abs[2] = lastEval[i].points
        /\ lastEval[i].sq[2] = lastEval[i].points

\* C7 as stated: with fewer than 3 samples calibrate_camera fails with
\* InsufficientSamples and does not run the calibration solve.
C7_FewSamplesRejected ==
    (lastCalib # <<>> /\ lastCalib.samples < 3)
      => (lastCalib.error = "InsufficientSamples" /\ ~lastCalib.solveRan)

\* C8 as stated: a frame without a valid pose (pattern not found, or the
\* solver reports failure) shows no current or relative pose, writes no
\* keyframe, and leaves the keyframe counter and the stored pose unchanged.
C8_NoPoseFrameIsNoUpdate ==
    [][ ret' = FALSE =>
          /\ shown' = <<>>
          /\ imageNr' = imageNr /\ files' = files /\ writes' = writes
          /\ PrevR' = PrevR /\ PrevT' = PrevT
      ]_vars

\* the pose stored as keyframe k - 1, the identity before the first keyframe
KeyframeBefore(k) == IF k = 0 THEN <<Zero3, Zero3>> ELSE commits[k]

\* C9: the k-th keyframe written is stored under index k (none skipped or
\* reused); its text gives the pose committed as keyframe k and, under
\* "Relative to previous pose", the delta (as line 161-162 compute it) between
\* that pose and the pose committed as keyframe k - 1 (the identity for k = 0).
C9_KeyframeFilesInOrder ==
    /\ Len(writes) = imageNr
    /\ Len(commits) = imageNr
    /\ \A k \in 1..Len(writes) : writes[k] = k - 1
    /\ DOMAIN files = 0..(imageNr - 1)
    /\ \A k \in 0..(imageNr - 1) :
         LET cur == commits[k + 1]
             prev == KeyframeBefore(k)
         IN  /\ files[k][2] = axis_and_angle_from_rvec(cur[1])
             /\ files[k][3] = cur[2]
             /\ files[k][5] = axis_and_angle_from_rvec(RvecRel(cur[1], prev[1]))
             /\ files[k][6] = Sub(cur[2], prev[2])

\* C9 witness: two keyframes with different poses were written, the second
\* after a frame that was shown but not committed.
C9_Witness ==
    /\ imageNr >= 2
    /\ commits[1] # commits[2]
    /\ commits[1][1] # Zero3
    /\ files[1][5] # files[0][5]
    /\ files[1][6] # Zero3

\* C10 as stated: the menu loop ends only on "q" or "Q"; choosing an option
\* before the options that produce its inputs never aborts the session; an
\* unrecognised input leaves the session state unchanged.
C10_MenuEndsOnlyOnQuit ==
    [][ /\ mpc' # "menu" => (mpc' = "quit" /\ inp' \in {"q", "Q"})
        /\ (inp' = "2" /\ objp = <<>>) => mpc' # "aborted"
        /\ (inp' \in {"3", "4", "5"} /\ calib = <<>>) => mpc' # "aborted"
        /\ inp' \notin Recognised => UNCHANGED sessionVars
      ]_vars

=============================================================================
